---- MODULE Spec2Model ----
(***************************************************************************)
(* Model of the paginated collection-and-rate-limiting client of          *)
(* CryptoLens: PaginatedEtherscanCollector (paginated_etherscan.py).      *)
(*                                                                         *)
(* One collector instance is driven by a sequential caller.  A collection *)
(* call is three kinds of step: its entry, one iteration of its loop      *)
(* (_rate_limit, the HTTP request, the try/except body that handles the   *)
(* response, the inter-page sleep), and the conversion of the accumulator *)
(* to the returned DataFrame.                                             *)
(*                                                                         *)
(* Time is counted in ticks of 100 ms: 0.2 s is 2 ticks, 0.5 s is 5 ticks,*)
(* one second is 10 ticks.  The provider is the environment: it answers   *)
(* every request with any response of the shapes the client distinguishes.*)
(* Records of one call share a schema (all carry timeStamp, or none does).*)
(*                                                                         *)
(* Beside the collector, each under a specification of its own: the       *)
(* time-window filter applied to sequences of its own (FilterSpec), the   *)
(* script of paginated_etherscan.py run repeatedly on one output directory*)
(* (ScriptSpec), EthereumAnalyzer.collect_all_protocols_data over the     *)
(* contract table (BatchSpec), collection calls running concurrently in   *)
(* threads, on instances of their own or on one instance (ThreadSpec), and*)
(* LidoAnalyzer.get_internal_transactions with the retries of its         *)
(* _make_request, delays in seconds (LidoSpec).                           *)
(***************************************************************************)
EXTENDS Integers, Sequences, FiniteSets, TLC

\* ------------------------------------------------------------------ bounds
\* Largest page_size a caller passes.
MaxPageSize == 2
\* Requests one collector instance issues before the exploration stops.
MaxRequests == 3
\* Collection calls made on the instance.
MaxCalls == 2
\* Ticks that may pass between _rate_limit's return and the request leaving.
MaxLatency == 1
\* Ticks the caller may spend between two collection calls.
MaxIdle == 1
\* Longest sequence handed to the time-window filter on its own.
MaxLen == 3
\* Requests each of the concurrent collection calls issues.
MaxThreadRequests == 2
\* Ticks the clock advances while the concurrent calls run.
Horizon == 7
\* The `offset` of LidoAnalyzer.get_internal_transactions, 1000 in the code,
\* scaled down: the code only compares the length of a page with it.
Offset == 2
\* Pages one call of get_internal_transactions asks for before the
\* exploration stops.
MaxLidoPages == 3
\* Clock at construction, in ticks (two days after the epoch; the code only
\* looks at differences, and at the epoch itself through last_request_time = 0).
StartTime == 1728000

\* --------------------------------------------------------------- constants
\* _rate_limit: 200 ms between requests.
RateLimitInterval == 2
\* "max 10000": the largest page_size of the transaction endpoints.
MaxOffsetTransactions == 10000
\* "max 1000 for logs": the largest page_size of the event endpoint.
MaxOffsetLogs == 1000
\* blocks_per_day = 6500
BlocksPerDay == 6500
\* The defaults start_block=0 and end_block=99999999.
DefaultStartBlock == 0
DefaultEndBlock == 99999999
\* time.sleep(0.5) at the end of each loop iteration.
InterPageDelay == 5
\* timedelta(days=days): seconds in a day.
SecondsPerDay == 86400
\* _make_request: max_retries = 3
max_retries == 3
\* _make_request: retry_delay = 1, in seconds.
InitialRetryDelay == 1

None == "None"

\* ------------------------------------------------------------------ helpers
Range(s) == {s[i] : i \in 1..Len(s)}

Min(a, b) == IF a <= b THEN a ELSE b

\* max(a, b)
Max(a, b) == IF a >= b THEN a ELSE b

\* Sequences over S of length 0..n.
SeqsUpTo(S, n) == UNION {[1..k -> S] : k \in 0..n}

RECURSIVE Concat(_)
\* The concatenation of a sequence of sequences.
Concat(ss) == IF ss = <<>> THEN <<>> ELSE Head(ss) \o Concat(Tail(ss))

RECURSIVE SumLen(_)
SumLen(ss) == IF ss = <<>> THEN 0 ELSE Len(Head(ss)) + SumLen(Tail(ss))

\* int(time.time()) / int(datetime.timestamp()): whole seconds of a tick count.
Seconds(t) == t \div 10

RECURSIVE ParseInt(_)
\* int(s) of a decimal string, kept as its sequence of digits.
ParseInt(s) == IF s = <<>> THEN 0 ELSE 10 * ParseInt(SubSeq(s, 1, Len(s) - 1)) + s[Len(s)]

\* ----------------------------------------------------------- the base URLs
ETHERSCAN_BASE_URLS ==
    [c \in {"ethereum", "arbitrum", "optimism", "polygon",
            "base", "avalanche", "bsc", "fantom"} |->
        CASE c = "ethereum"  -> "https://api.etherscan.io/api"
          [] c = "arbitrum"  -> "https://api.arbiscan.io/api"
          [] c = "optimism"  -> "https://api.optimistic.etherscan.io/api"
          [] c = "polygon"   -> "https://api.polygonscan.com/api"
          [] c = "base"      -> "https://api.basescan.org/api"
          [] c = "avalanche" -> "https://api.snowtrace.io/api"
          [] c = "bsc"       -> "https://api.bscscan.com/api"
          [] c = "fantom"    -> "https://api.ftmscan.com/api"]

\* The chain arguments callers pass in the model.
Chains == {"Ethereum", "notachain"}

\* chain.lower() on the chain arguments of the model.
Lower(c) == IF c = "Ethereum" THEN "ethereum" ELSE c

\* A lookup that falls back to the Ethereum endpoint for an unknown chain.
BaseUrlDefaulting(chain) ==
    IF Lower(chain) \in DOMAIN ETHERSCAN_BASE_URLS
    THEN ETHERSCAN_BASE_URLS[Lower(chain)]
    ELSE ETHERSCAN_BASE_URLS["ethereum"]

\* ETHERSCAN_BASE_URLS.get(chain.lower()): None for an absent key.
BaseUrl(chain) ==
    IF Lower(chain) \in DOMAIN ETHERSCAN_BASE_URLS
    THEN ETHERSCAN_BASE_URLS[Lower(chain)]
    ELSE None

\* ---------------------------------------------------------------- records
\* "86399" and "86401" as decimal strings.
OldStamp == <<8, 6, 3, 9, 9>>
NewStamp == <<8, 6, 4, 0, 1>>

\* The provider's records: with the timeStamp field, or without it.
StampedRecords == {[hash |-> "0xa", timeStamp |-> OldStamp],
                   [hash |-> "0xb", timeStamp |-> NewStamp]}
BareRecords == {[hash |-> "0xa"], [hash |-> "0xb"]}

RecordsOf(stamped) == IF stamped THEN StampedRecords ELSE BareRecords

\* int(tx.get("timeStamp", 0))
StampOf(tx) == IF "timeStamp" \in DOMAIN tx THEN ParseInt(tx.timeStamp) ELSE 0

\* The filter, losing the first record it keeps.
TimeFilterLosing(txs, start) ==
    LET kept == SelectSeq(txs, LAMBDA tx : StampOf(tx) >= start)
    IN  IF kept = <<>> THEN kept ELSE Tail(kept)

\* [tx for tx in transactions if int(tx.get("timeStamp", 0)) >= start_timestamp]
TimeFilter(txs, start) == SelectSeq(txs, LAMBDA tx : StampOf(tx) >= start)

\* -------------------------------------------------------------- responses
Methods == {"txlist", "txlistinternal", "getLogs"}

\* The largest `offset` the provider documents for an endpoint.
ProviderMaximum(action) ==
    IF action = "getLogs" THEN MaxOffsetLogs ELSE MaxOffsetTransactions

\* The page_size values a caller passes: small ones, and one above every
\* documented maximum.
PageSizes == (1..MaxPageSize) \cup {MaxOffsetTransactions + 1}

\* start_block as the request carries it: get_contract_events raises it to
\* end_block - days * blocks_per_day when a lookback window is asked for.
StartBlock(m, d) ==
    IF m = "getLogs" /\ d > 0
    THEN Max(DefaultStartBlock, DefaultEndBlock - (d * BlocksPerDay))
    ELSE DefaultStartBlock

\* The params dictionary of one request (address, sort and apikey left out).
Params(m, d, page, p) ==
    [action |-> m, startblock |-> StartBlock(m, d), endblock |-> DefaultEndBlock,
     page |-> page, offset |-> p]

\* What the provider (or the network) can answer to one page request: a page of
\* at most p records (and never more than MaxPageSize of them), an application error, an HTTP error, or no response at all
\* (requests.get or response.json() raises; status_code 0 stands for none).
Responses(p, stamped) ==
       {[raised |-> FALSE, status_code |-> 200, status |-> "1", message |-> "OK",
         result |-> r] : r \in SeqsUpTo(RecordsOf(stamped), Min(p, MaxPageSize))}
  \cup {[raised |-> FALSE, status_code |-> 200, status |-> "0", message |-> m,
         result |-> <<>>] : m \in {"No transactions found", "NOTOK"}}
  \cup {[raised |-> FALSE, status_code |-> 503, status |-> None, message |-> None,
         result |-> <<>>]}
  \cup {[raised |-> TRUE, status_code |-> 0, status |-> None, message |-> None,
         result |-> <<>>]}

IsPage(resp) == ~resp.raised /\ resp.status_code = 200 /\ resp.status = "1"

\* ------------------------------------------------------------------ state
VARIABLES
    \* the collector instance
    request_count, last_request_time,
    \* the clock (time.time()), in ticks
    now,
    \* the collection call in progress or last made
    pc, method, chain, days, page_size, start_timestamp,
    loc,        \* its locals: all_transactions, page, more_pages, total_fetched
    ret,        \* the DataFrame handed back to the caller
    \* the environment and the history of the call
    stamped,    \* do the provider's records carry timeStamp
    calls,      \* collection calls made so far
    requested,  \* the `page` parameter of each request of this call
    responses,  \* the responses received in this call
    sent,       \* the times at which the last two requests left the instance
    called_at,  \* the clock when the call was entered
    params      \* the parameters of the last request

\* The time-window filter on its own.
VARIABLES
    f_transactions,     \* the sequence it is given
    f_start_timestamp,  \* the window start it is given
    f_pc,               \* "given", "filtered", "refiltered"
    f_once,             \* the sequence filtered
    f_twice             \* the filtered sequence filtered again

filter_vars == <<f_transactions, f_start_timestamp, f_pc, f_once, f_twice>>

\* The script of paginated_etherscan.py, run again and again on one directory.
VARIABLES
    files,      \* the CSV files of the output directory: path -> DataFrame written
    s_pc,       \* "idle" before the first run, "exited" after a run
    args,       \* the arguments of the last run: address, chain, days
    collected   \* what the three collection calls of the last run returned

script_vars == <<files, s_pc, args, collected>>

\* EthereumAnalyzer.collect_all_protocols_data (ethereum_analyzer.py).
VARIABLES
    b_pc,               \* "idle", "pair", "contract", "returned", "raised"
    b_pair,             \* position in PROTOCOL_CONTRACTS of the pair at hand
    b_contract,         \* position of the contract at hand in the pair's list
    protocol_data,      \* the result collect_protocol_data is building
    all_protocols_data, \* the mapping of the batch, in insertion order
    saved,              \* the files _save_data has written, in order
    fetches,            \* the fetches issued for the pair at hand; for a
                        \* transaction fetch, whether it came back empty
    fetch_failed        \* has a fetch of the batch failed so far

batch_vars == <<b_pc, b_pair, b_contract, protocol_data, all_protocols_data,
                saved, fetches, fetch_failed>>

collector_vars ==
    <<request_count, last_request_time, now, pc, method, chain, days,
      page_size, start_timestamp, loc, ret, stamped, calls,
      requested, responses, sent, called_at, params>>

\* Collection calls running concurrently, each in its own thread, on collector
\* instances of their own or on one shared instance.
VARIABLES
    c_now,                \* the clock, in ticks
    owner,                \* thread -> the collector instance it calls
    c_last_request_time,  \* instance -> its last_request_time
    c_request_count,      \* instance -> its request_count
    t_pc,                 \* thread -> "limit", "wait", "send", "pause", "done"
    t_wake,               \* thread -> the time its current sleep ends
    t_requests,           \* thread -> requests it has issued
    log                   \* the requests sent: <<instance, time>>, in order

thread_vars == <<c_now, owner, c_last_request_time, c_request_count, t_pc,
                 t_wake, t_requests, log>>

\* LidoAnalyzer.get_internal_transactions and _make_request (lido_analyzer.py).
VARIABLES
    l_pc,                \* "idle", "request" (in _make_request), "result", "returned"
    l_address,           \* the address argument of the call
    l_page,              \* page
    l_all_transactions,  \* all_transactions
    attempt,             \* _make_request: attempt
    retry_delay,         \* _make_request: retry_delay, in seconds
    result,              \* what _make_request returned for the page at hand
    l_ret,               \* the list get_internal_transactions returned
    http_requests,       \* HTTP requests of the _make_request call at hand
    slept,               \* the backoff delays it slept, in order
    answers,             \* the responses to its HTTP requests, in order
    l_requested,         \* the `page` parameter of each _make_request call
    l_results            \* what each _make_request call returned

lido_vars == <<l_pc, l_address, l_page, l_all_transactions, attempt, retry_delay,
               result, l_ret, http_requests, slept, answers, l_requested,
               l_results>>

vars == <<collector_vars, filter_vars, script_vars, batch_vars, thread_vars,
          lido_vars>>

\* pd.DataFrame(): no columns, no rows.
EmptyDataFrame == [columns |-> {}, rows |-> <<>>]

\* The conversion, with the datetime column added whatever the columns are.
ToDataFrameAlwaysDated(records) ==
    IF records = <<>> THEN EmptyDataFrame
    ELSE LET cols == UNION {DOMAIN records[i] : i \in 1..Len(records)}
         IN  [columns |-> cols \cup {"datetime"},
              rows |-> [i \in 1..Len(records) |->
                          records[i] @@ ("datetime" :> StampOf(records[i]))]]

\* pd.DataFrame(records) followed by the derived datetime column:
\* df["datetime"] = pd.to_datetime(df["timeStamp"].astype(int), unit='s').
ToDataFrame(records) ==
    IF records = <<>> THEN EmptyDataFrame
    ELSE LET cols == UNION {DOMAIN records[i] : i \in 1..Len(records)}
         IN  IF "timeStamp" \in cols
             THEN [columns |-> cols \cup {"datetime"},
                   rows |-> [i \in 1..Len(records) |->
                               records[i] @@ ("datetime" :> ParseInt(records[i].timeStamp))]]
             ELSE [columns |-> cols, rows |-> records]

\* The locals of the previous call, carried into the next one.
StaleLocals ==
    IF pc = "returned"
    THEN [loc EXCEPT !.more_pages = TRUE]
    ELSE [all_transactions |-> <<>>, page |-> 1, more_pages |-> TRUE,
          total_fetched |-> 0]

\* The locals at "Initialize variables for pagination".
FreshLocals == [all_transactions |-> <<>>, page |-> 1, more_pages |-> TRUE,
                total_fetched |-> 0]

\* ------------------------------------------------- the body of the loop
\* all_transactions.extend of the records not collected yet.
ExtendUnique(acc, txs) ==
    acc \o SelectSeq(txs, LAMBDA tx : \A i \in 1..Len(acc) : acc[i] # tx)

\* all_transactions.extend(transactions), with the operands swapped.
ExtendFront(acc, txs) == txs \o acc

\* all_transactions.extend(transactions)
Extend(acc, txs) == acc \o txs

\* The end-of-data test with <= for <.
IsShortPageInclusive(n, p) == n <= p

\* A stop test that ends the loop after every page.
IsShortPageAlways(n, p) == TRUE

\* len(transactions) < page_size
IsShortPage(n, p) == n < p

\* Does this call filter its pages by time (days > 0; the events method never does).
Filters(m, d) == d > 0 /\ m # "getLogs"

\* status "1": `transactions = data.get("result", [])` and what follows.
PageBranch(l, transactions, m, d, start, p) ==
    IF transactions # <<>>
    THEN LET kept == IF Filters(m, d) THEN TimeFilter(transactions, start)
                     ELSE transactions
         IN  [all_transactions |-> Extend(l.all_transactions, kept),
              total_fetched    |-> l.total_fetched + Len(kept),
              more_pages       |-> ~IsShortPage(Len(kept), p),
              page             |-> IF IsShortPage(Len(kept), p) THEN l.page
                                   ELSE l.page + 1]
    ELSE [l EXCEPT !.more_pages = FALSE]

\* An API error that leaves the loop running on the same page.
ApiErrorBranchRetrying(l) == l

\* status other than "1": print the message, more_pages = False.
ApiErrorBranch(l) == [l EXCEPT !.more_pages = FALSE]

\* An HTTP error that also throws away what was collected.
HttpErrorBranchDropping(l) == [l EXCEPT !.more_pages = FALSE, !.all_transactions = <<>>]

\* status_code other than 200: print it, more_pages = False.
HttpErrorBranch(l) == [l EXCEPT !.more_pages = FALSE]

\* except Exception: print it, more_pages = False.
ExceptBranch(l) == [l EXCEPT !.more_pages = FALSE]

\* The try/except of one loop iteration, applied to the response received.
HandleResponse(l, resp, m, d, start, p) ==
    IF resp.raised THEN ExceptBranch(l)
    ELSE IF resp.status_code = 200
         THEN IF resp.status = "1"
              THEN PageBranch(l, resp.result, m, d, start, p)
              ELSE ApiErrorBranch(l)
         ELSE HttpErrorBranch(l)

\* ---------------------------------------------------------------- actions
\* No sequence is handed to the filter on its own.
FilterIdle ==
    /\ f_transactions = <<>> /\ f_start_timestamp = 0
    /\ f_pc = "idle" /\ f_once = <<>> /\ f_twice = <<>>

\* An empty output directory, the script not run yet.
InitScript ==
    /\ files = <<>>
    /\ s_pc = "idle"
    /\ args = [address |-> None, chain |-> None, days |-> 0]
    /\ collected = [k \in {} |-> EmptyDataFrame]

\* The threads of the concurrent calls, and the collector instances.
Threads == 1..2

\* One last_request_time for all the threads.
FirstInstance(t) == 1

\* PaginatedEtherscanCollector(): the instance a thread constructs for itself,
\* with a last_request_time of its own.
OwnInstance(t) == t

Separate == [t \in Threads |-> OwnInstance(t)]
Shared == [t \in Threads |-> 1]

\* The instances constructed, no call running on them.
ThreadsIdle ==
    /\ c_now = StartTime
    /\ owner = Separate
    /\ c_last_request_time = [i \in Threads |-> 0]
    /\ c_request_count = [i \in Threads |-> 0]
    /\ t_pc = [t \in Threads |-> "done"]
    /\ t_wake = [t \in Threads |-> 0]
    /\ t_requests = [t \in Threads |-> 0]
    /\ log = <<>>

\* Every thread at the head of the loop of its collection call, the threads
\* on instances of their own or all on one instance.
InitThreads ==
    /\ c_now = StartTime
    /\ owner \in {Separate, Shared}
    /\ c_last_request_time = [i \in Threads |-> 0]
    /\ c_request_count = [i \in Threads |-> 0]
    /\ t_pc = [t \in Threads |-> "limit"]
    /\ t_wake = [t \in Threads |-> 0]
    /\ t_requests = [t \in Threads |-> 0]
    /\ log = <<>>

\* EthereumAnalyzer constructed, no batch started.
InitBatch ==
    /\ b_pc = "idle"
    /\ b_pair = 0 /\ b_contract = 0
    /\ protocol_data = <<>>
    /\ all_protocols_data = <<>>
    /\ saved = <<>>
    /\ fetches = <<>>
    /\ fetch_failed = FALSE

\* What _make_request returns: None, or a list.
NoneResult == [none |-> TRUE, rows |-> <<>>]
ListResult(rows) == [none |-> FALSE, rows |-> rows]

\* LidoAnalyzer constructed, get_internal_transactions not called yet.
InitLido ==
    /\ l_pc = "idle"
    /\ l_address = None
    /\ l_page = 0
    /\ l_all_transactions = <<>>
    /\ attempt = 0
    /\ retry_delay = 0
    /\ result = NoneResult
    /\ l_ret = <<>>
    /\ http_requests = 0
    /\ slept = <<>>
    /\ answers = <<>>
    /\ l_requested = <<>>
    /\ l_results = <<>>

InitCollector ==
    /\ request_count = 0
    /\ last_request_time = 0
    /\ now = StartTime
    /\ pc = "idle"
    /\ method = None /\ chain = None /\ days = 0 /\ page_size = 0
    /\ start_timestamp = 0
    /\ loc = FreshLocals
    /\ ret = None
    /\ stamped = TRUE
    /\ calls = 0
    /\ requested = <<>>
    /\ responses = <<>>
    /\ sent = <<>>
    /\ called_at = StartTime
    /\ params = None

\* The other components as constructed, nothing running on them.
OthersIdle == FilterIdle /\ InitScript /\ InitBatch /\ ThreadsIdle /\ InitLido

Init == InitCollector /\ OthersIdle

\* The caller invokes get_paginated_transactions ("txlist"), get_paginated_
\* internal_transactions ("txlistinternal") or get_contract_events ("getLogs"),
\* `idle` ticks after the previous call returned: entry up to the head of the
\* loop, or the early return for an unsupported chain.
Call(m, c, d, p, idle, st) ==
    /\ pc \in {"idle", "returned"}
    /\ calls < MaxCalls
    /\ calls' = calls + 1
    /\ now' = now + idle
    /\ method' = m /\ chain' = c /\ days' = d /\ page_size' = p
    /\ stamped' = st
    /\ requested' = <<>> /\ responses' = <<>>
    /\ loc' = FreshLocals
    /\ IF BaseUrl(c) = None
       THEN /\ ret' = EmptyDataFrame
            /\ pc' = "returned"
            /\ start_timestamp' = 0
       ELSE /\ ret' = None
            /\ pc' = "loop"
            /\ start_timestamp' = IF Filters(m, d)
                                  THEN Seconds(now') - d * SecondsPerDay
                                  ELSE 0
    /\ called_at' = now'
    /\ UNCHANGED <<request_count, last_request_time, sent, params>>

\* The times of the last two requests, after one more left at time t.
LastTwo(s, t) == IF Len(s) < 2 THEN Append(s, t) ELSE <<s[2], t>>

\* _rate_limit: the time at which it stops sleeping, given time.time() at its
\* entry and self.last_request_time.
RateLimitWake(current_time, last) ==
    LET time_since_last_request == current_time - last
    IN  IF time_since_last_request < RateLimitInterval
        THEN current_time + (RateLimitInterval - time_since_last_request)
        ELSE current_time

\* The request counted in _rate_limit and once more when it is answered.
CountRequestTwice(n) == n + 2

\* self.request_count += 1
CountRequest(n) == n + 1

\* The iteration closed by a sleep of 100 ms.
AfterShortSleep(t) == t + 1

\* The iteration without its closing sleep.
AfterNoSleep(t) == t

\* time.sleep(0.5): the time at which the iteration ends, entered at time t.
AfterSleep(t) == t + InterPageDelay

\* One iteration of `while more_pages:`: self._rate_limit(), requests.get (the
\* request leaves `lat` ticks later and is answered with `resp`), the try/except
\* body, time.sleep(0.5).
Fetch(lat, resp) ==
    /\ pc = "loop" /\ loc.more_pages
    /\ request_count < MaxRequests
    /\ LET woken == RateLimitWake(now, last_request_time)
           left  == woken + lat
       IN  /\ last_request_time' = woken
           /\ sent' = LastTwo(sent, left)
           /\ now' = AfterSleep(left)
    /\ request_count' = CountRequest(request_count)
    /\ requested' = Append(requested, loc.page)
    /\ params' = Params(method, days, loc.page, page_size)
    /\ responses' = Append(responses, resp)
    /\ loc' = HandleResponse(loc, resp, method, days, start_timestamp, page_size)
    /\ UNCHANGED <<pc, method, chain, days, page_size, start_timestamp, ret,
                   stamped, calls, called_at>>

\* `while more_pages:` left: convert the accumulator and return it.
Return ==
    /\ pc = "loop" /\ ~loc.more_pages
    /\ ret' = ToDataFrame(loc.all_transactions)
    /\ pc' = "returned"
    /\ UNCHANGED <<request_count, last_request_time, now, method, chain, days,
                   page_size, start_timestamp, loc, stamped, calls,
                   requested, responses, sent, called_at, params>>

\* The chains of the calls that get past the base-URL lookup.
SupportedChains == {c \in Chains : BaseUrl(c) # None}

\* The caller calls back at once and every request leaves at once.  A call on
\* an unsupported chain returns before it reads its other arguments, so it is
\* made with one choice of them.
NextCollector ==
    \/ \E m \in Methods, c \in SupportedChains, d \in 0..1, p \in PageSizes,
          st \in BOOLEAN : Call(m, c, d, p, 0, st)
    \/ \E m \in Methods, c \in Chains \ SupportedChains :
          Call(m, c, 0, 1, 0, TRUE)
    \/ \E resp \in Responses(page_size, stamped) : Fetch(0, resp)
    \/ Return

Next ==
    NextCollector
    /\ UNCHANGED <<filter_vars, script_vars, batch_vars, thread_vars, lido_vars>>

Spec == Init /\ [][Next]_vars

\* The timing of the requests: the caller idles between calls and a request
\* takes time to leave; pages of one record without a lookback window.
NextTimingCollector ==
    \/ \E m \in Methods, c \in Chains, idle \in 0..MaxIdle :
          Call(m, c, 0, 1, idle, TRUE)
    \/ \E lat \in 0..MaxLatency, resp \in Responses(page_size, stamped) :
          Fetch(lat, resp)
    \/ Return

NextTiming ==
    NextTimingCollector
    /\ UNCHANGED <<filter_vars, script_vars, batch_vars, thread_vars, lido_vars>>

TimingSpec == Init /\ [][NextTiming]_vars

\* ------------------------------------------- the time-window filter alone
\* The window starts tried: none, and the seconds around the two stamps.
FilterStarts ==
    {0} \cup UNION {{ParseInt(t) - 1, ParseInt(t), ParseInt(t) + 1} :
                       t \in {OldStamp, NewStamp}}

\* Any sequence of records, with and without timeStamp mixed, and any start.
InitFilter ==
    /\ f_transactions \in SeqsUpTo(StampedRecords \cup BareRecords, MaxLen)
    /\ f_start_timestamp \in FilterStarts
    /\ f_pc = "given" /\ f_once = <<>> /\ f_twice = <<>>

\* transactions = [tx for tx in transactions if ...]
ApplyFilter ==
    /\ f_pc = "given"
    /\ f_once' = TimeFilter(f_transactions, f_start_timestamp)
    /\ f_pc' = "filtered"
    /\ UNCHANGED <<f_transactions, f_start_timestamp, f_twice>>

\* The same comprehension over what it produced.
ApplyFilterAgain ==
    /\ f_pc = "filtered"
    /\ f_twice' = TimeFilter(f_once, f_start_timestamp)
    /\ f_pc' = "refiltered"
    /\ UNCHANGED <<f_transactions, f_start_timestamp, f_once>>

NextFilter ==
    /\ ApplyFilter \/ ApplyFilterAgain
    /\ UNCHANGED <<collector_vars, script_vars, batch_vars, thread_vars, lido_vars>>

InitFilterSpec ==
    InitCollector /\ InitFilter /\ InitScript /\ InitBatch /\ ThreadsIdle
    /\ InitLido

FilterSpec == InitFilterSpec /\ [][NextFilter]_vars

\* ------------------------------------------------------------ the script
\* The three results the script saves, in the order it saves them.
Kinds == {"transactions", "internal_txs", "events"}

\* f"{args.output_dir}/{args.chain}_{args.address}_<kind>_{args.days}d.csv"
Path(a, kind) == <<a.chain, a.address, kind, a.days>>

\* What a collection call hands back to the script: no record, or one.
ScriptResults == {ToDataFrame(r) : r \in SeqsUpTo(StampedRecords, 1)}

\* The command lines tried: one contract, all time or the default 30 days.
ScriptArgs == {[address |-> "0x7d27", chain |-> "ethereum", days |-> d] :
                 d \in {0, 30}}

\* df.empty
Empty(df) == df.rows = <<>>

\* `if not df.empty: df.to_csv(path, index=False)` for the three results.
SaveResults(fs, a, got) ==
    [path \in DOMAIN fs \cup {Path(a, k) : k \in {j \in Kinds : ~Empty(got[j])}} |->
        IF \E k \in Kinds : path = Path(a, k) /\ ~Empty(got[k])
        THEN got[CHOOSE k \in Kinds : path = Path(a, k)]
        ELSE fs[path]]

\* One run of the script: the three collection calls return `got`, then the
\* results are saved.
RunScript(a, got) ==
    /\ args' = a
    /\ collected' = got
    /\ files' = SaveResults(files, a, got)
    /\ s_pc' = "exited"

NextScript ==
    (\E a \in ScriptArgs, got \in [Kinds -> ScriptResults] : RunScript(a, got))
    /\ UNCHANGED <<collector_vars, filter_vars, batch_vars, thread_vars, lido_vars>>

InitScriptSpec ==
    InitCollector /\ FilterIdle /\ InitScript /\ InitBatch /\ ThreadsIdle
    /\ InitLido

ScriptSpec == InitScriptSpec /\ [][NextScript]_vars

\* ------------------------------------------------- the batch of protocols
\* PROTOCOL_CONTRACTS, its (protocol, chain) pairs in the order the two nested
\* loops of collect_all_protocols_data meet them; addresses by their first digits.
PROTOCOL_CONTRACTS == <<
    [protocol |-> "Aave",     chain |-> "ethereum", contracts |-> <<"0x7d27", "0x8787">>],
    [protocol |-> "Aave",     chain |-> "optimism", contracts |-> <<"0x794a">>],
    [protocol |-> "Aave",     chain |-> "arbitrum", contracts |-> <<"0x794a">>],
    [protocol |-> "Aave",     chain |-> "polygon",  contracts |-> <<"0x8dFf", "0x794a">>],
    [protocol |-> "LIDO",     chain |-> "ethereum", contracts |-> <<"0xae7a", "0x442a">>],
    [protocol |-> "Eigen",    chain |-> "ethereum", contracts |-> <<"0x8586", "0x3905">>],
    [protocol |-> "MKR",      chain |-> "ethereum", contracts |-> <<"0x9759", "0x35D1">>],
    [protocol |-> "Compound", chain |-> "ethereum", contracts |-> <<"0x3d98", "0xbEb5">>],
    [protocol |-> "Compound", chain |-> "polygon",  contracts |-> <<"0xF252">>] >>

\* The transactions the provider holds for an address: one, or two for the
\* pools and managers listed second.  Amounts are decimal strings.
TxA == [hash |-> "0xa", value |-> <<5>>, gasUsed |-> <<2>>, gasPrice |-> <<3>>]
TxB == [hash |-> "0xb", value |-> <<7>>, gasUsed |-> <<1>>, gasPrice |-> <<4>>]
History(address) ==
    IF address \in {"0x8787", "0x794a", "0x442a", "0x3905", "0x35D1", "0xbEb5"}
    THEN <<TxA, TxB>> ELSE <<TxA>>

\* What can come back for the one request of a fetch: the whole history, an
\* application error, an HTTP error, or no response at all.
BatchResponses(address) ==
       {[raised |-> FALSE, status_code |-> 200, status |-> "1", message |-> "OK",
         result |-> History(address)]}
  \cup {[raised |-> FALSE, status_code |-> 200, status |-> "0", message |-> m,
         result |-> <<>>] : m \in {"No transactions found", "NOTOK"}}
  \cup {[raised |-> FALSE, status_code |-> 503, status |-> None, message |-> None,
         result |-> <<>>]}
  \cup {[raised |-> TRUE, status_code |-> 0, status |-> None, message |-> None,
         result |-> <<>>]}

\* A fetch that failed: a raised request error, an HTTP error, or an
\* application error other than the no-records message.
Failure(resp) ==
    \/ resp.raised
    \/ resp.status_code # 200
    \/ resp.status # "1" /\ resp.message # "No transactions found"

\* pd.DataFrame(records)
DataFrame(records) ==
    IF records = <<>> THEN EmptyDataFrame
    ELSE [columns |-> UNION {DOMAIN records[i] : i \in 1..Len(records)},
          rows |-> records]

\* The fetch with its try/except removed: a raised request error leaves it.
GetContractTransactionsUncaught(resp) ==
    [raised |-> resp.raised,
     df |-> IF IsPage(resp) THEN DataFrame(resp.result) ELSE EmptyDataFrame]

\* get_contract_transactions, get_contract_internal_transactions: what the
\* call returns for the response to its request, and whether it raises.
GetContractTransactions(resp) ==
    [raised |-> FALSE,
     df |-> IF IsPage(resp) THEN DataFrame(resp.result) ELSE EmptyDataFrame]

RECURSIVE SumSeq(_)
\* Series.sum()
SumSeq(s) == IF s = <<>> THEN 0 ELSE Head(s) + SumSeq(Tail(s))

\* _calculate_contract_revenue, in units of 10^-20 ETH (wei / 100), so that
\* the 1 % and 10 % fees stay whole numbers.
CalculateContractRevenue(protocol_name, transactions) ==
    LET rows == transactions.rows
        has(f) == f \in transactions.columns
        value == SumSeq([i \in 1..Len(rows) |-> ParseInt(rows[i].value)])
        gas == SumSeq([i \in 1..Len(rows) |->
                         ParseInt(rows[i].gasUsed) * ParseInt(rows[i].gasPrice)])
    IN  IF Empty(transactions) THEN 0
        ELSE IF protocol_name = "Aave" THEN (IF has("value") THEN value ELSE 0)
        ELSE IF protocol_name = "LIDO" THEN (IF has("value") THEN value * 10 ELSE 0)
        ELSE IF has("gasUsed") /\ has("gasPrice") THEN gas * 100 ELSE 0

\* The contract entered under "contracts" and left out of the totals.
AddContractUncounted(data, address, transactions, contract_revenue) ==
    [data EXCEPT
       !.contracts = Append(@, [address |-> address,
                                transaction_count |-> Len(transactions.rows),
                                revenue |-> contract_revenue])]

\* "Add to results": the entry protocol_data["contracts"][contract_address]
\* and the two running totals.
AddContract(data, address, transactions, contract_revenue) ==
    [data EXCEPT
       !.contracts = Append(@, [address |-> address,
                                transaction_count |-> Len(transactions.rows),
                                revenue |-> contract_revenue]),
       !.total_transactions = @ + Len(transactions.rows),
       !.total_revenue = @ + contract_revenue]

\* The pair and the contract at hand.
Pair == PROTOCOL_CONTRACTS[b_pair]
Contract == Pair.contracts[b_contract]

\* collect_all_protocols_data, up to the first pair.
CollectAllProtocolsData ==
    /\ b_pc = "idle"
    /\ all_protocols_data' = <<>>
    /\ b_pair' = 1
    /\ b_pc' = "pair"
    /\ UNCHANGED <<b_contract, protocol_data, saved, fetches, fetch_failed>>

\* collect_protocol_data, up to the first contract of the pair.
CollectProtocolData ==
    /\ b_pc = "pair" /\ b_pair <= Len(PROTOCOL_CONTRACTS)
    /\ protocol_data' = [protocol |-> Pair.protocol, chain |-> Pair.chain,
                         contracts |-> <<>>, total_transactions |-> 0,
                         total_revenue |-> 0]
    /\ b_contract' = 1
    /\ fetches' = <<>>
    /\ b_pc' = "contract"
    /\ UNCHANGED <<b_pair, all_protocols_data, saved, fetch_failed>>

\* One iteration of `for contract_address in contract_addresses:`; the request
\* for the transactions is answered with resp, the one for the internal
\* transactions (if it is issued) with resp_internal.  An exception that leaves
\* a fetch leaves collect_all_protocols_data: nothing above catches it.
ProcessContract(resp, resp_internal) ==
    /\ b_pc = "contract" /\ b_contract <= Len(Pair.contracts)
    /\ LET fetched == GetContractTransactions(resp)
           transactions == fetched.df
           internal == GetContractTransactions(resp_internal)
           contract_revenue == CalculateContractRevenue(Pair.protocol, transactions)
       IN  IF fetched.raised
           THEN /\ b_pc' = "raised"
                /\ fetches' = Append(fetches, <<"txlist", Contract, TRUE>>)
                /\ fetch_failed' = (fetch_failed \/ Failure(resp))
                /\ UNCHANGED <<b_contract, protocol_data>>
           ELSE IF Empty(transactions)
           THEN /\ b_pc' = "contract"
                /\ b_contract' = b_contract + 1
                /\ fetches' = Append(fetches, <<"txlist", Contract, TRUE>>)
                /\ fetch_failed' = (fetch_failed \/ Failure(resp))
                /\ UNCHANGED protocol_data
           ELSE /\ fetches' = fetches \o <<(<<"txlist", Contract, FALSE>>),
                                           (<<"txlistinternal", Contract>>)>>
                /\ fetch_failed' = (fetch_failed \/ Failure(resp_internal))
                /\ IF internal.raised
                   THEN b_pc' = "raised" /\ UNCHANGED <<b_contract, protocol_data>>
                   ELSE /\ b_pc' = "contract"
                        /\ b_contract' = b_contract + 1
                        /\ protocol_data' =
                             AddContract(protocol_data, Contract, transactions,
                                         contract_revenue)
    /\ UNCHANGED <<b_pair, all_protocols_data, saved>>

\* The loop over the contracts left: _save_data, return protocol_data, and the
\* assignment all_protocols_data[protocol_name][chain] = protocol_data.
FinishProtocolData ==
    /\ b_pc = "contract" /\ b_contract > Len(Pair.contracts)
    /\ saved' = Append(saved, <<Pair.protocol, Pair.chain, "data.json">>)
    /\ all_protocols_data' =
         Append(all_protocols_data,
                [protocol |-> Pair.protocol, chain |-> Pair.chain,
                 data |-> protocol_data])
    /\ b_pair' = b_pair + 1
    /\ b_pc' = "pair"
    /\ UNCHANGED <<b_contract, protocol_data, fetches, fetch_failed>>

\* Both loops left: _save_data(all_protocols_data, ...) and the return.
ReturnAllProtocolsData ==
    /\ b_pc = "pair" /\ b_pair > Len(PROTOCOL_CONTRACTS)
    /\ saved' = Append(saved, <<"all_protocols_ethereum_data.json">>)
    /\ b_pc' = "returned"
    /\ UNCHANGED <<b_pair, b_contract, protocol_data, all_protocols_data,
                   fetches, fetch_failed>>

NextBatch ==
    /\ \/ CollectAllProtocolsData
       \/ CollectProtocolData
       \/ /\ b_pc = "contract" /\ b_contract <= Len(Pair.contracts)
          /\ \E resp \in BatchResponses(Contract),
                resp_internal \in BatchResponses(Contract) :
                   ProcessContract(resp, resp_internal)
       \/ FinishProtocolData
       \/ ReturnAllProtocolsData
    /\ UNCHANGED <<collector_vars, filter_vars, script_vars, thread_vars, lido_vars>>

InitBatchSpec ==
    InitCollector /\ FilterIdle /\ InitScript /\ InitBatch /\ ThreadsIdle
    /\ InitLido

BatchSpec == InitBatchSpec /\ [][NextBatch]_vars

\* ------------------------------------------------------ concurrent calls
\* _rate_limit, its first two statements: thread t reads the clock and the
\* last_request_time of its instance and computes how long to sleep.
ReadLimiter(t) ==
    /\ t_pc[t] = "limit"
    /\ t_wake' = [t_wake EXCEPT
                    ![t] = RateLimitWake(c_now, c_last_request_time[owner[t]])]
    /\ t_pc' = [t_pc EXCEPT ![t] = "wait"]
    /\ UNCHANGED <<c_now, owner, c_last_request_time, c_request_count,
                   t_requests, log>>

\* _rate_limit, its last two statements, once the sleep (if any) is over:
\* self.last_request_time = time.time(); self.request_count += 1.
StampLimiter(t) ==
    /\ t_pc[t] = "wait" /\ c_now >= t_wake[t]
    /\ c_last_request_time' = [c_last_request_time EXCEPT ![owner[t]] = c_now]
    /\ c_request_count' = [c_request_count EXCEPT ![owner[t]] = @ + 1]
    /\ t_pc' = [t_pc EXCEPT ![t] = "send"]
    /\ UNCHANGED <<c_now, owner, t_wake, t_requests, log>>

\* requests.get: the request of thread t leaves; a full page comes back and
\* the thread enters time.sleep(0.5).
SendRequest(t) ==
    /\ t_pc[t] = "send"
    /\ log' = Append(log, <<owner[t], c_now>>)
    /\ t_requests' = [t_requests EXCEPT ![t] = @ + 1]
    /\ t_wake' = [t_wake EXCEPT ![t] = AfterSleep(c_now)]
    /\ t_pc' = [t_pc EXCEPT ![t] = "pause"]
    /\ UNCHANGED <<c_now, owner, c_last_request_time, c_request_count>>

\* time.sleep(0.5) over: back to the head of the loop.
Resume(t) ==
    /\ t_pc[t] = "pause" /\ c_now >= t_wake[t]
    /\ t_pc' = [t_pc EXCEPT
                  ![t] = IF t_requests[t] < MaxThreadRequests THEN "limit"
                         ELSE "done"]
    /\ UNCHANGED <<c_now, owner, c_last_request_time, c_request_count, t_wake,
                   t_requests, log>>

\* 100 ms pass; a thread may be scheduled late, never early.
Tick ==
    /\ \E t \in Threads : t_pc[t] # "done"
    /\ c_now < StartTime + Horizon
    /\ c_now' = c_now + 1
    /\ UNCHANGED <<owner, c_last_request_time, c_request_count, t_pc, t_wake,
                   t_requests, log>>

NextThreads ==
    /\ \/ \E t \in Threads : ReadLimiter(t)
       \/ \E t \in Threads : StampLimiter(t)
       \/ \E t \in Threads : SendRequest(t)
       \/ \E t \in Threads : Resume(t)
       \/ Tick
    /\ UNCHANGED <<collector_vars, filter_vars, script_vars, batch_vars, lido_vars>>

InitThreadSpec ==
    InitCollector /\ FilterIdle /\ InitScript /\ InitBatch /\ InitThreads
    /\ InitLido

ThreadSpec == InitThreadSpec /\ [][NextThreads]_vars

\* ----------------------------------------------------------- LidoAnalyzer
\* EXECUTION_LAYER_REWARDS_VAULT, by its first digits.
LidoVault == "0x388C"

\* str.lower() on the addresses of the model.
LowerAddress(a) == IF a = "0x388C" THEN "0x388c" ELSE a

\* Internal transactions as the provider sends them: one into the vault (the
\* provider writes addresses in lower case), one to another address.
LidoRecords == {[hash |-> "0x1", to |-> "0x388c"], [hash |-> "0x2", to |-> "0xdead"]}

\* The provider's rate-limit text.
RateLimitText == "Max rate limit reached, please use API Key for higher rate limit"

\* `needle in text` for the texts of the model.
Contains(text, needle) ==
    \/ text = needle
    \/ text = RateLimitText /\ needle = "Max rate limit reached"

\* What can come back for one HTTP request of _make_request: a page of at most
\* Offset records, a rate-limit message, the no-records message, another
\* application error, or nothing (requests.get or response.json() raises).
\* `rows` is data["result"] when it is a list, `text` is str(data["result"])
\* when it is not.
LidoResponses ==
       {[raised |-> FALSE, status |-> "1", message |-> "OK", text |-> "",
         rows |-> r] : r \in SeqsUpTo(LidoRecords, Offset)}
  \cup {[raised |-> FALSE, status |-> "0", message |-> "NOTOK",
         text |-> RateLimitText, rows |-> <<>>]}
  \cup {[raised |-> FALSE, status |-> "0", message |-> "No records found",
         text |-> "", rows |-> <<>>]}
  \cup {[raised |-> FALSE, status |-> "0", message |-> "NOTOK",
         text |-> "Invalid API Key", rows |-> <<>>]}
  \cup {[raised |-> TRUE, status |-> None, message |-> None, text |-> "",
         rows |-> <<>>]}

\* A test that takes every application error for a rate-limit message.
IsAnyError(resp) == TRUE

\* elif "Max rate limit reached" in str(data.get("result", "")):
IsRateLimit(resp) == Contains(resp.text, "Max rate limit reached")

\* A retry that does not use up an attempt.
SameAttempt(a) == a

\* `for attempt in range(max_retries)`: on to the next attempt.
NextAttempt(a) == a + 1

\* tx.get("to", "")
ToOf(tx) == IF "to" \in DOMAIN tx THEN tx.to ELSE ""

\* [tx for tx in result if tx.get("to", "").lower() == address.lower()]
Incoming(rows, a) ==
    SelectSeq(rows, LAMBDA tx : LowerAddress(ToOf(tx)) = LowerAddress(a))

\* The stop test, on what is left of the page.
LastPageOfIncoming(rows, incoming) == Len(incoming) < Offset

\* if len(result) < offset: break
LastPage(rows, incoming) == Len(rows) < Offset

\* `not result`: None, or an empty list.
NotResult(r) == r.none \/ r.rows = <<>>

\* The body of the loop, losing what was collected when the request failed.
AfterResultForgetting(all, page, r, a) ==
    IF NotResult(r)
    THEN [all_transactions |-> IF r.none THEN <<>> ELSE all, page |-> page,
          stop |-> TRUE]
    ELSE LET incoming_txs == Incoming(r.rows, a)
         IN  IF LastPage(r.rows, incoming_txs)
             THEN [all_transactions |-> all \o incoming_txs, page |-> page,
                   stop |-> TRUE]
             ELSE [all_transactions |-> all \o incoming_txs, page |-> page + 1,
                   stop |-> FALSE]

\* The body of `while True:` after _make_request returned r: the locals after
\* it, and whether a break left the loop.
AfterResult(all, page, r, a) ==
    IF NotResult(r)
    THEN [all_transactions |-> all, page |-> page, stop |-> TRUE]
    ELSE LET incoming_txs == Incoming(r.rows, a)
         IN  IF LastPage(r.rows, incoming_txs)
             THEN [all_transactions |-> all \o incoming_txs, page |-> page,
                   stop |-> TRUE]
             ELSE [all_transactions |-> all \o incoming_txs, page |-> page + 1,
                   stop |-> FALSE]

\* get_internal_transactions, up to its first _make_request.
GetInternalTransactions(a) ==
    /\ l_pc = "idle"
    /\ l_address' = a
    /\ l_page' = 1
    /\ l_all_transactions' = <<>>
    /\ l_pc' = "request"
    /\ attempt' = 0
    /\ retry_delay' = InitialRetryDelay
    /\ http_requests' = 0
    /\ slept' = <<>>
    /\ answers' = <<>>
    /\ l_requested' = <<1>>
    /\ l_results' = <<>>
    /\ UNCHANGED <<result, l_ret>>

\* _make_request returns r to get_internal_transactions.
ReturnResult(r) ==
    /\ result' = r
    /\ l_results' = Append(l_results, r)
    /\ l_pc' = "result"

\* One attempt of _make_request: the HTTP request is answered with resp.
Attempt(resp) ==
    /\ l_pc = "request" /\ attempt < max_retries
    /\ http_requests' = http_requests + 1
    /\ answers' = Append(answers, resp)
    /\ IF resp.raised
       THEN IF attempt < max_retries - 1
            THEN /\ slept' = Append(slept, retry_delay)
                 /\ retry_delay' = retry_delay * 2
                 /\ attempt' = NextAttempt(attempt)
                 /\ UNCHANGED <<result, l_results, l_pc>>
            ELSE /\ ReturnResult(NoneResult)
                 /\ UNCHANGED <<slept, retry_delay, attempt>>
       ELSE IF resp.status = "1"
       THEN /\ ReturnResult(ListResult(resp.rows))
            /\ UNCHANGED <<slept, retry_delay, attempt>>
       ELSE IF IsRateLimit(resp)
       THEN /\ retry_delay' = retry_delay * 2
            /\ slept' = Append(slept, retry_delay')
            /\ attempt' = NextAttempt(attempt)
            /\ IF attempt' < max_retries
               THEN UNCHANGED <<result, l_results, l_pc>>
               ELSE ReturnResult(NoneResult)
       ELSE /\ IF Contains(resp.message, "No records found")
               THEN ReturnResult(ListResult(<<>>))
               ELSE ReturnResult(NoneResult)
            /\ UNCHANGED <<slept, retry_delay, attempt>>
    /\ UNCHANGED <<l_address, l_page, l_all_transactions, l_ret, l_requested>>

\* The rest of the loop body: the break and the return, or page += 1, the
\* sleep between pages and the entry of the next _make_request.
HandleResult ==
    /\ l_pc = "result"
    /\ LET after == AfterResult(l_all_transactions, l_page, result, l_address)
       IN  /\ after.stop \/ l_page < MaxLidoPages
           /\ l_all_transactions' = after.all_transactions
           /\ l_page' = after.page
           /\ IF after.stop
              THEN /\ l_ret' = after.all_transactions
                   /\ l_pc' = "returned"
                   /\ UNCHANGED <<attempt, retry_delay, http_requests, slept,
                                  answers, l_requested>>
              ELSE /\ l_pc' = "request"
                   /\ attempt' = 0
                   /\ retry_delay' = InitialRetryDelay
                   /\ http_requests' = 0
                   /\ slept' = <<>>
                   /\ answers' = <<>>
                   /\ l_requested' = Append(l_requested, after.page)
                   /\ UNCHANGED l_ret
    /\ UNCHANGED <<l_address, result, l_results>>

NextLido ==
    /\ \/ GetInternalTransactions(LidoVault)
       \/ \E resp \in LidoResponses : Attempt(resp)
       \/ HandleResult
    /\ UNCHANGED <<collector_vars, filter_vars, script_vars, batch_vars,
                   thread_vars>>

InitLidoSpec ==
    InitCollector /\ FilterIdle /\ InitScript /\ InitBatch /\ ThreadsIdle
    /\ InitLido

LidoSpec == InitLidoSpec /\ [][NextLido]_vars

\* ------------------------------------------------- what the claims speak of
\* Is the chain of the call one the base-URL table knows (case ignored).
Supported == Lower(chain) \in DOMAIN ETHERSCAN_BASE_URLS

\* The raw pages the provider returned in this call, in the order received.
RawPages ==
    LET ok == SelectSeq(responses, IsPage)
    IN  [i \in 1..Len(ok) |-> ok[i].result]

\* The records of a raw page that the call keeps.
Surviving(page) ==
    IF days > 0 /\ method \in {"txlist", "txlistinternal"}
    THEN SelectSeq(page, LAMBDA tx : StampOf(tx) >= start_timestamp)
    ELSE page

\* The kept records of all pages received, page after page.
Collected == Concat([i \in 1..Len(RawPages) |-> Surviving(RawPages[i])])

\* The rows of a DataFrame without the derived datetime column.
ProviderFields(rows) ==
    [i \in 1..Len(rows) |-> [f \in (DOMAIN rows[i]) \ {"datetime"} |-> rows[i][f]]]

\* A request that failed at HTTP level: a raised error or a non-200 status.
HttpFailure(resp) == resp.raised \/ resp.status_code # 200

\* status "0" with the no-records message.
NoRecords(resp) ==
    /\ ~resp.raised /\ resp.status_code = 200
    /\ resp.status = "0" /\ resp.message = "No transactions found"

InCall == pc \in {"loop", "returned"} /\ Supported /\ Len(responses) >= 1

LastResponse == responses[Len(responses)]

\* ---------------------------------------------------------------------- C1
\* C1: without a lookback window and with only successful pages, page k+1 is
\* requested exactly when page k came with page_size records; the call stops at
\* the first shorter page, so it makes as many requests as the index of that
\* page and returns as many records as the pages it fetched hold.
C1_StopsAtFirstShortPage ==
    (InCall /\ days = 0 /\ \A i \in 1..Len(responses) : IsPage(responses[i])) =>
        LET n == Len(responses)
            full(k) == Len(responses[k].result) = page_size
        IN  /\ requested = [k \in 1..n |-> k]
            /\ \A k \in 1..(n - 1) : full(k)
            /\ full(n) => (loc.more_pages /\ loc.page = n + 1 /\ pc = "loop")
            /\ ~full(n) => ~loc.more_pages
            /\ pc = "returned" =>
                  /\ Len(responses[n].result) < page_size
                  /\ Len(ret.rows) = SumLen(RawPages)

C1_Witness ==
    /\ pc = "returned" /\ Supported /\ days = 0 /\ page_size = 2
    /\ Len(responses) = 3
    /\ \A i \in 1..3 : IsPage(responses[i])
    /\ Len(responses[1].result) = 2 /\ Len(responses[2].result) = 2
    /\ Len(responses[3].result) = 1
    /\ requested = <<1, 2, 3>>
    /\ Len(ret.rows) = 5

\* ---------------------------------------------------------------------- C2
\* C2: with a lookback window, the transaction methods decide on the raw length
\* of the page: a page that arrived with page_size records is followed by a
\* request for the next page, whatever the filter kept of it.
C2_StopDecidedOnRawLength ==
    (InCall /\ pc = "loop" /\ days > 0 /\ method \in {"txlist", "txlistinternal"}
        /\ IsPage(LastResponse) /\ Len(LastResponse.result) = page_size) =>
        (loc.more_pages /\ loc.page = Len(requested) + 1)

\* ---------------------------------------------------------------------- C3
\* C3: two consecutive requests of one collector instance, in one call or in
\* two successive calls, leave at least 0.2 s apart.
C3_MinimumInterval ==
    Len(sent) = 2 => sent[2] - sent[1] >= 2

\* Two requests of two successive calls, as close as they get.
C3_Witness ==
    /\ Len(sent) = 2 /\ calls = 2 /\ Len(requested) = 1
    /\ sent[2] - sent[1] = 5

\* ---------------------------------------------------------------------- C4
\* C4: what a call has collected, and what it returns, is the kept records of
\* page 1, then of page 2, ..., each page in the order the provider sent it.
C4_OrderPreserved ==
    (pc \in {"loop", "returned"} /\ Supported) =>
        /\ loc.all_transactions = Collected
        /\ pc = "returned" => ProviderFields(ret.rows) = Collected

C4_Witness ==
    /\ pc = "returned" /\ Supported /\ Len(RawPages) = 3
    /\ RawPages[1] # RawPages[2]
    /\ Len(ret.rows) = 5
    /\ ret.rows[1].hash = "0xb" /\ ret.rows[2].hash = "0xa"
    /\ ret.rows[3].hash = "0xa" /\ ret.rows[4].hash = "0xb"

\* ---------------------------------------------------------------------- C5
\* C5: a request that fails at HTTP level (a non-200 status or a raised error)
\* is the last request of its call, and the call returns exactly what the pages
\* before it had collected.
C5_PartialResultKept ==
    (InCall /\ \E i \in 1..Len(responses) : HttpFailure(responses[i])) =>
        /\ \A i \in 1..(Len(responses) - 1) : ~HttpFailure(responses[i])
        /\ ~loc.more_pages
        /\ Len(loc.all_transactions) = SumLen([i \in 1..Len(RawPages) |-> Surviving(RawPages[i])])
        /\ loc.all_transactions = Collected
        /\ pc = "returned" =>
              /\ Len(ret.rows) = Len(Collected)
              /\ ProviderFields(ret.rows) = Collected

C5_Witness ==
    /\ pc = "returned" /\ Supported /\ Len(responses) = 3
    /\ IsPage(responses[1]) /\ IsPage(responses[2])
    /\ ~responses[3].raised /\ responses[3].status_code = 503
    /\ Len(ret.rows) = 4

\* ---------------------------------------------------------------------- C6
\* C6: when a call was cut short by an HTTP-level failure, what the caller gets
\* carries a CollectionError annotation with the number of records retrieved
\* before the failure.
C6_FailureAnnotated ==
    (InCall /\ pc = "returned" /\ HttpFailure(LastResponse)) =>
        /\ "error" \in DOMAIN ret
        /\ ret.error = [kind |-> "CollectionError",
                        retrieved |-> Len(loc.all_transactions)]

\* ---------------------------------------------------------------------- C7
\* C7: a page request that failed with HTTP 503 after an earlier page succeeded
\* has been issued again for the same page before the call gives up.
C7_TransientFailureRetried ==
    (InCall /\ pc = "returned" /\ Len(responses) >= 2
        /\ ~LastResponse.raised /\ LastResponse.status_code = 503) =>
        Cardinality({i \in 1..Len(requested) :
                        requested[i] = requested[Len(requested)]}) >= 2

\* ---------------------------------------------------------------------- C8
\* C8: a call stops asking for pages by itself: there is a page count, within
\* the requests explored, after which it does not go on even though the
\* provider keeps answering with full pages.
C8_PageCountCeiling ==
    (pc = "loop" /\ Supported /\ loc.more_pages) => Len(requested) < MaxRequests

\* ---------------------------------------------------------------------- C9
\* C9: a call with a chain the base-URL table does not know returns an empty
\* DataFrame at once: no request leaves, and last_request_time and
\* request_count keep their values.
C9_UnsupportedChain ==
    [][(calls' = calls + 1 /\ Lower(chain') \notin DOMAIN ETHERSCAN_BASE_URLS) =>
          /\ pc' = "returned"
          /\ ret' = EmptyDataFrame
          /\ requested' = <<>>
          /\ sent' = sent
          /\ last_request_time' = last_request_time
          /\ request_count' = request_count]_vars

\* An unsupported call made after the instance has issued requests.
C9_Witness ==
    /\ pc = "returned" /\ ~Supported /\ calls = 2
    /\ request_count = 2 /\ last_request_time > 0
    /\ requested = <<>> /\ ret = EmptyDataFrame

\* --------------------------------------------------------------------- C10
\* C10: when the first page request is answered with status "0" and "No
\* transactions found", the call makes no other request and returns an empty
\* DataFrame.
C10_NoRecordsOnFirstPage ==
    (InCall /\ NoRecords(responses[1])) =>
        /\ Len(responses) = 1 /\ requested = <<1>>
        /\ ~loc.more_pages
        /\ pc = "returned" => ret = EmptyDataFrame

C10_Witness ==
    /\ pc = "returned" /\ Supported /\ Len(responses) = 1
    /\ NoRecords(responses[1])
    /\ ret = EmptyDataFrame /\ request_count = 1

\* --------------------------------------------------------------------- C11
\* C11: a status "0" response with a no-records message and one with any other
\* message end the call with outcomes the caller can tell apart.
C11_StatusZeroKindsDistinguished ==
    (pc = "loop" /\ Supported /\ loc.more_pages) =>
        LET answer(m) == [raised |-> FALSE, status_code |-> 200, status |-> "0",
                          message |-> m, result |-> <<>>]
            outcome(resp) ==
                LET l == HandleResponse(loc, resp, method, days, start_timestamp,
                                        page_size)
                IN  [more_pages |-> l.more_pages,
                     returned   |-> ToDataFrame(l.all_transactions)]
        IN  outcome(answer("No transactions found")) # outcome(answer("NOTOK"))

\* --------------------------------------------------------------------- C19
\* The records of the raw pages of this call, whatever the filter kept of them.
Fetched == Range(Concat(RawPages))

\* C19: a call starts from fresh pagination state, however the calls before it
\* ended: before its first request nothing is collected and page 1 is due, its
\* first request is for page 1, and it returns only records that a page of
\* this very call brought.
C19_FreshPaginationState ==
    (pc \in {"loop", "returned"} /\ Supported) =>
        /\ requested = <<>> =>
              (loc.all_transactions = <<>> /\ (pc = "loop" => loc.page = 1))
        /\ requested # <<>> => requested[1] = 1
        /\ Range(loc.all_transactions) \subseteq Fetched
        /\ pc = "returned" =>
              /\ Range(ProviderFields(ret.rows)) \subseteq Fetched
              /\ Len(ret.rows) <= SumLen(RawPages)

\* A second call has returned records of another schema than the first call,
\* on an instance whose first call had collected records and requested pages.
C19_Witness ==
    /\ pc = "returned" /\ Supported /\ calls = 2
    /\ request_count > Len(requested)
    /\ requested = <<1>> /\ ~stamped
    /\ Len(ret.rows) = 1 /\ ret.rows[1] \in BareRecords

\* --------------------------------------------------------------------- C20
\* How often record r occurs in sequence s.
CountIn(s, r) == Cardinality({i \in 1..Len(s) : s[i] = r})

RECURSIVE CountInPages(_, _)
\* How often record r occurs among the kept records of the given pages.
CountInPages(pages, r) ==
    IF pages = <<>> THEN 0
    ELSE CountIn(Surviving(Head(pages)), r) + CountInPages(Tail(pages), r)

\* C20: nothing is deduplicated: a record occurs in the returned sequence as
\* often as it occurs among the kept records of all pages fetched, so a record
\* the provider sent on two pages is returned twice.
C20_NoDeduplication ==
    (pc = "returned" /\ Supported) =>
        \A r \in StampedRecords \cup BareRecords :
            CountIn(ProviderFields(ret.rows), r) = CountInPages(RawPages, r)

\* Page 1 and page 2 brought the same record, and it is returned twice.
C20_Witness ==
    /\ pc = "returned" /\ Supported /\ page_size = 1
    /\ Len(RawPages) >= 2 /\ RawPages[1] # <<>> /\ RawPages[1] = RawPages[2]
    /\ Surviving(RawPages[1]) = RawPages[1]
    /\ CountIn(ProviderFields(ret.rows), RawPages[1][1]) = 2

\* --------------------------------------------------------------------- C12
\* The start of the lookback window, computed when the call was entered.
WindowStart == Seconds(called_at) - (days * SecondsPerDay)

\* C12: with a lookback window (days > 0), every record that any of the three
\* methods returns carries a timestamp not earlier than the window start
\* computed at the beginning of the call.
C12_ReturnedInsideWindow ==
    (pc = "returned" /\ Supported /\ days > 0 /\ stamped) =>
        \A i \in 1..Len(ret.rows) : StampOf(ret.rows[i]) >= WindowStart

\* --------------------------------------------------------------------- C14
\* C14: the offset parameter of a request never exceeds the provider's maximum
\* for the endpoint, whatever page_size the caller passed.
C14_OffsetWithinProviderMaximum ==
    (pc \in {"loop", "returned"} /\ Supported /\ requested # <<>>) =>
        params.offset <= ProviderMaximum(params.action)

\* --------------------------------------------------------------------- C13
\* C13: the time-window filter is idempotent: filtering a filtered sequence
\* gives that sequence back, same records, same order, same multiplicities.
C13_FilterIdempotent ==
    f_pc = "refiltered" => f_twice = f_once

\* The filter dropped something (one record for a missing timeStamp) and kept a
\* record twice, and the second pass returned the same sequence.
C13_Witness ==
    /\ f_pc = "refiltered"
    /\ Len(f_once) = 2 /\ f_once[1] = f_once[2] /\ Len(f_transactions) = 3
    /\ \E i \in 1..3 : "timeStamp" \notin DOMAIN f_transactions[i]
    /\ f_twice = f_once

\* --------------------------------------------------------------------- C16
\* The records the file at a path holds; a missing file holds none.
FileRecords(path) == IF path \in DOMAIN files THEN files[path].rows ELSE <<>>

\* C16: after a run of the script, each output file of the run's (address,
\* chain, window) key holds exactly the records that run collected, also when
\* the run collected none: nothing an earlier run wrote survives.
C16_FileHoldsThisRun ==
    s_pc = "exited" =>
        \A k \in Kinds : FileRecords(Path(args, k)) = collected[k].rows

\* --------------------------------------------------------------------- C15
\* The (protocol, chain) keys of a sequence of entries, in order.
PairsOf(entries) ==
    [i \in 1..Len(entries) |-> <<entries[i].protocol, entries[i].chain>>]

\* C15: no failed fetch aborts collect_all_protocols_data: no exception leaves
\* it, the pairs of the contract table are processed in table order, and the
\* mapping it returns has an entry for every pair.
C15_BatchNeverAborted ==
    /\ b_pc # "raised"
    /\ b_pc \in {"pair", "contract", "returned"} =>
          /\ b_pair \in 1..(Len(PROTOCOL_CONTRACTS) + 1)
          /\ PairsOf(all_protocols_data) =
                SubSeq(PairsOf(PROTOCOL_CONTRACTS), 1, b_pair - 1)
    /\ b_pc = "returned" =>
          PairsOf(all_protocols_data) = PairsOf(PROTOCOL_CONTRACTS)

\* A batch that met failed fetches has returned: a pair all of whose fetches
\* came back empty has its entry like a pair whose contracts were collected.
C15_Witness ==
    /\ b_pc = "returned" /\ fetch_failed
    /\ Len(all_protocols_data) = Len(PROTOCOL_CONTRACTS)
    /\ all_protocols_data[1].data.contracts = <<>>
    /\ Len(all_protocols_data[5].data.contracts) = 2

\* --------------------------------------------------------------------- C17
\* Any two requests sent through one instance left at least 0.2 s apart.
SpacedPerInstance ==
    \A i, j \in 1..Len(log) :
        (i < j /\ log[i][1] = log[j][1]) =>
            log[j][2] - log[i][2] >= RateLimitInterval

\* C17: two collectors running concurrently keep a last_request_time each, so
\* the minimum interval holds among the requests of each instance (and only
\* there: requests of the two instances may reach the provider together).
C17_GuaranteePerInstance ==
    owner = Separate =>
        /\ SpacedPerInstance
        /\ \A t \in Threads :
              t_requests[t] = Cardinality({i \in 1..Len(log) : log[i][1] = t})

\* Both instances have sent their requests, and two requests of different
\* instances reached the provider less than 0.2 s apart.
C17_Witness ==
    /\ owner = Separate
    /\ \A t \in Threads : t_requests[t] = MaxThreadRequests
    /\ \E i, j \in 1..Len(log) :
          /\ i < j /\ log[i][1] # log[j][1]
          /\ log[j][2] - log[i][2] < RateLimitInterval

\* --------------------------------------------------------------------- C18
\* C18: concurrent calls that share one instance, hence one limiter, still
\* send any two requests at least 0.2 s apart.
C18_SharedLimiterSpaces ==
    owner = Shared => SpacedPerInstance

\* --------------------------------------------------------------------- C21
\* C21: records are passed through unchanged: every field the provider sent
\* is returned with the value it was sent with, and the one field added is
\* datetime, added exactly when the records carry timeStamp.
C21_RecordsPassedThrough ==
    (pc = "returned" /\ Supported) =>
        /\ Len(ret.rows) = Len(Collected)
        /\ \A i \in 1..Len(ret.rows) :
              LET sent_record == Collected[i]
                  row == ret.rows[i]
              IN  /\ \A f \in DOMAIN sent_record :
                         f \in DOMAIN row /\ row[f] = sent_record[f]
                  /\ (DOMAIN row) \ (DOMAIN sent_record) \subseteq {"datetime"}
                  /\ ("datetime" \in DOMAIN row) <=> ("timeStamp" \in DOMAIN sent_record)
                  /\ ("datetime" \in DOMAIN row) =>
                        row.datetime = ParseInt(sent_record.timeStamp)
        /\ ("datetime" \in ret.columns) <=> (stamped /\ Collected # <<>>)

\* A call returned two records that carry timeStamp, with datetime added.
C21_Witness ==
    /\ pc = "returned" /\ Supported /\ stamped
    /\ Len(ret.rows) = 2 /\ ret.rows[1] # ret.rows[2]
    /\ "datetime" \in ret.columns
    /\ ret.rows[1].timeStamp \in {OldStamp, NewStamp}

\* --------------------------------------------------------------------- C26
\* A page request leaves: one more iteration of the loop of the call.
PageRequested == pc = "loop" /\ request_count' = request_count + 1

\* C26: every page request of a call, the last one and a failed one included,
\* is followed by the 0.5 s delay before the next request or the return; so
\* two consecutive requests of a call are at least 0.5 s apart, and for a page
\* after the first _rate_limit stamps the time it was entered at: it never
\* waits.
C26_CourtesyDelayAfterEveryRequest ==
    /\ [](InCall =>
            /\ now >= sent[Len(sent)] + InterPageDelay
            /\ Len(requested) >= 2 => sent[2] - sent[1] >= InterPageDelay)
    /\ [][(PageRequested /\ requested # <<>>) => last_request_time' = now]_vars

\* A call has returned after a full page and a failed request for page 2.
C26_Witness ==
    /\ pc = "returned" /\ Supported /\ Len(requested) = 2
    /\ IsPage(responses[1]) /\ HttpFailure(responses[2])
    /\ sent[2] - sent[1] >= InterPageDelay
    /\ now >= sent[2] + InterPageDelay

\* --------------------------------------------------------------------- C29
\* A step in which an HTTP page request is attempted: a response, or the
\* failure to get one, is added to those of the call.
RequestAttempted == Len(responses') = Len(responses) + 1

\* C29: request_count starts at 0 and goes up by exactly one in every step
\* that attempts a request, answered or failed, and changes in no other step:
\* it is the number of requests the instance has attempted over all its calls.
C29_RequestCountCountsRequests ==
    /\ [](calls = 0 => request_count = 0)
    /\ [](Len(responses) <= request_count)
    /\ [][IF RequestAttempted
          THEN request_count' = request_count + 1
          ELSE request_count' = request_count]_vars

\* Two calls, three requests, the last of them failed.
C29_Witness ==
    /\ pc = "returned" /\ Supported /\ calls = 2
    /\ Len(requested) = 2 /\ HttpFailure(responses[2])
    /\ request_count = 3

\* --------------------------------------------------------------------- C30
\* The totals of a result are the sums over the contracts it holds.
TotalsAreSums(data) ==
    LET cs == data.contracts
    IN  /\ data.total_transactions =
              SumSeq([i \in 1..Len(cs) |-> cs[i].transaction_count])
        /\ data.total_revenue = SumSeq([i \in 1..Len(cs) |-> cs[i].revenue])

\* The addresses a result holds.
Present(data) == {data.contracts[i].address : i \in 1..Len(data.contracts)}

\* C30: in collect_protocol_data a contract whose transaction fetch came back
\* empty is left out of the result and no internal-transaction fetch is issued
\* for it, a contract whose fetch brought records is in the result and has its
\* internal transactions fetched; total_transactions and total_revenue are the
\* sums of transaction_count and revenue over the contracts in the result,
\* while the result is built and in every result returned.
C30_EmptyContractsOmitted ==
    /\ b_pc = "contract" =>
          /\ \A k \in 1..(b_contract - 1) :
                LET a == Pair.contracts[k]
                    tx == {i \in 1..Len(fetches) :
                             fetches[i][1] = "txlist" /\ fetches[i][2] = a}
                    internal == {i \in 1..Len(fetches) :
                                   fetches[i] = <<"txlistinternal", a>>}
                IN  /\ Cardinality(tx) = 1
                    /\ \A i \in tx :
                          /\ fetches[i][3] <=> a \notin Present(protocol_data)
                          /\ Cardinality(internal) = IF fetches[i][3] THEN 0 ELSE 1
          /\ Present(protocol_data) \subseteq
                {Pair.contracts[k] : k \in 1..(b_contract - 1)}
          /\ TotalsAreSums(protocol_data)
    /\ \A n \in 1..Len(all_protocols_data) :
          /\ TotalsAreSums(all_protocols_data[n].data)
          /\ \A i \in 1..Len(all_protocols_data[n].data.contracts) :
                all_protocols_data[n].data.contracts[i].transaction_count > 0

\* The first LIDO contract came back empty and is left out, the second brought
\* two transactions: one entry, and the totals are its count and its revenue.
C30_Witness ==
    /\ b_pc = "contract" /\ Pair.protocol = "LIDO" /\ b_contract = 3
    /\ fetches = <<(<<"txlist", "0xae7a", TRUE>>), (<<"txlist", "0x442a", FALSE>>),
                   (<<"txlistinternal", "0x442a">>)>>
    /\ Present(protocol_data) = {"0x442a"}
    /\ protocol_data.total_transactions = 2
    /\ protocol_data.total_revenue = 120

\* ------------------------------------------------- LidoAnalyzer: the claims
\* An answer after which _make_request goes to another attempt, in the words
\* of the claims: a raised exception, or a rate-limit message.
Transient(resp) == resp.raised \/ (resp.status # "1" /\ resp.text = RateLimitText)

\* _make_request has returned to get_internal_transactions.
MadeRequest == l_pc \in {"result", "returned"}

\* --------------------------------------------------------------------- C22
\* C22: one call of _make_request issues at most 3 HTTP requests whatever
\* the answers are, and returns None when all 3 attempts end in an exception
\* or a rate-limit message.
C22_AtMostThreeRequests ==
    /\ http_requests <= 3
    /\ http_requests = Len(answers)
    /\ (Len(answers) = 3 /\ \A i \in 1..3 : Transient(answers[i]))
          => MadeRequest /\ result = NoneResult

\* Three attempts that all ended in an exception or a rate-limit message, of
\* both kinds.
C22_Witness ==
    /\ MadeRequest /\ Len(answers) = 3 /\ result = NoneResult
    /\ \A i \in 1..3 : Transient(answers[i])
    /\ \E i, j \in 1..3 : answers[i].raised /\ ~answers[j].raised

\* --------------------------------------------------------------------- C23
\* The sleeps of slept that were followed by another attempt: a sleep after
\* the last attempt is followed by `return None`.
Retries == Min(Len(slept), max_retries - 1)

\* C23: within one call of _make_request the delay slept before each retry
\* is double the delay slept before the previous retry, whatever the order
\* of exceptions and rate-limit messages.
C23_BackoffDoubles ==
    \A i \in 2..Retries : slept[i] = 2 * slept[i - 1]

\* --------------------------------------------------------------------- C24
\* C24: an application error that is not a rate-limit message ends the call
\* with that request: [] when the message contains "No records found", None
\* otherwise; every answer before the last one of a call was an exception or
\* a rate-limit message.
C24_OtherErrorsTerminal ==
    /\ \A i \in 1..(Len(answers) - 1) : Transient(answers[i])
    /\ answers # <<>> =>
          LET last == answers[Len(answers)]
          IN  (~last.raised /\ last.status # "1" /\ last.text # RateLimitText)
                => /\ MadeRequest
                   /\ result = IF last.message = "No records found"
                               THEN ListResult(<<>>) ELSE NoneResult

\* Both terminal errors seen, one of them after a retry.
C24_Witness ==
    /\ MadeRequest /\ Len(answers) = 2 /\ answers[1].raised
    /\ answers[2].message = "No records found" /\ result = ListResult(<<>>)
    /\ \E i \in 1..Len(l_results) - 1 : l_results[i].rows # <<>>

\* --------------------------------------------------------------------- C25
RECURSIVE IncomingOfPages(_, _)
\* The records sent to address a in the pages rs, in order.
IncomingOfPages(rs, a) ==
    IF rs = <<>> THEN <<>>
    ELSE SelectSeq(Head(rs).rows, LAMBDA tx : tx.to = LowerAddress(a))
           \o IncomingOfPages(Tail(rs), a)

\* C25: when _make_request returns None on page k > 1,
\* get_internal_transactions returns the incoming transactions of pages
\* 1..k-1, which is also what it returns when page k is empty.
C25_PartialResultOnFailure ==
    (l_pc = "returned" /\ (result.none \/ result.rows = <<>>))
      => /\ Len(l_results) = l_page
         /\ l_ret = IncomingOfPages(SubSeq(l_results, 1, l_page - 1), l_address)

\* A failure on a later page, after an incoming record was collected.
C25_Witness ==
    /\ l_pc = "returned" /\ result.none /\ l_page > 1 /\ l_ret # <<>>
    /\ Len(answers) = 3

\* --------------------------------------------------------------------- C28
\* A page of exactly Offset raw records has come back.
FullPageReturned ==
    l_pc = "result" /\ ~result.none /\ Len(result.rows) = Offset

\* C28: the pages requested are 1, 2, 3, ... without gaps, and a page with
\* exactly `offset` raw records is followed by the request for the next page
\* whatever its records are.
C28_StopsOnRawLength ==
    /\ [](\A i \in 1..Len(l_requested) : l_requested[i] = i)
    /\ [](l_pc # "idle" => Len(l_requested) = l_page)
    /\ [][FullPageReturned
            => l_pc' = "request" /\ l_requested' = Append(l_requested, l_page + 1)]_vars

\* A full page without one incoming record was followed by the next request.
C28_Witness ==
    /\ l_pc = "request" /\ l_page = 2 /\ l_requested = <<1, 2>>
    /\ Len(l_results[1].rows) = Offset
    /\ \A i \in 1..Offset : l_results[1].rows[i].to # "0x388c"
    /\ l_all_transactions = <<>>

\* --------------------------------------------------------------------- C27
\* What a request of this call brought: the page, or no records for the
\* provider's no-records message.
PageOf(resp) == IF IsPage(resp) THEN resp.result ELSE <<>>

\* The history h sorted by descending timestamp.
Descending(h) ==
    \A i \in 1..(Len(h) - 1) : StampOf(h[i]) >= StampOf(h[i + 1])

\* The provider paginated the history h stably in this call: every request was
\* answered, and the request for page n with the n-th slice of page_size
\* records of h.
StablyPaginated(h) ==
    /\ \A i \in 1..Len(responses) : IsPage(responses[i]) \/ NoRecords(responses[i])
    /\ \A i \in 1..Len(responses) :
          PageOf(responses[i]) =
              SubSeq(h, (requested[i] - 1) * page_size + 1,
                     Min(requested[i] * page_size, Len(h)))

\* The records of h inside the lookback window of the call.
InWindow(h) == SelectSeq(h, LAMBDA tx : StampOf(tx) >= start_timestamp)

\* The histories that begin with the records received in this call.
Histories ==
    {Concat([i \in 1..Len(responses) |-> PageOf(responses[i])]) \o rest :
        rest \in SeqsUpTo(RecordsOf(stamped), MaxLen)}

\* C27: when the provider paginates a history stably and in descending
\* timestamp order, a transaction method called with days > 0 returns exactly
\* the records of the whole history that lie inside the window, those on pages
\* never requested included.
C27_WindowComplete ==
    (pc = "returned" /\ Supported /\ days > 0
        /\ method \in {"txlist", "txlistinternal"}) =>
        \A h \in Histories :
            (Descending(h) /\ StablyPaginated(h)) =>
                ProviderFields(ret.rows) = InWindow(h)

\* The call stopped on a full page of which the filter dropped a record, after
\* a full page inside the window, and the history goes on behind it.
C27_Witness ==
    /\ pc = "returned" /\ Supported /\ days > 0 /\ method = "txlistinternal"
    /\ page_size = 2 /\ requested = <<1, 2>>
    /\ Len(ret.rows) = 3
    /\ \E h \in Histories :
          Descending(h) /\ StablyPaginated(h) /\ Len(h) > 4

====
